---- MODULE Spec2Model ----
(***************************************************************************)
(* Model of CivicValidator (src/issue_validator.py): the image gate, the   *)
(* caption requester, the relevance scorer with its strict parser, and the *)
(* validation pipeline that composes them.                                 *)
(*                                                                         *)
(* Text is modelled at two grains.  File names and scoring replies are     *)
(* sequences of one-character strings, so that rsplit, lower, strip,       *)
(* split, the substring test and the digit-run search are computed as the  *)
(* code computes them.  Captions are sequences of lexical tokens, so that  *)
(* str() and ast.literal_eval() are computed on Python values.             *)
(***************************************************************************)
EXTENDS Integers, Sequences, FiniteSets, TLC

VARIABLES
    groq_api_key,     \* self.groq_api_key: "key" or "None"
    florence_client,  \* self.florence_client: TRUE = a client, FALSE = None
    op,               \* the method the last completed call ran
    arg,              \* its arguments
    ret,              \* its return value (NoValue when it raised)
    raised,           \* TRUE when the call ended with an exception
    fileOps,          \* seek/open/verify operations the call made on the upload
    cursor,           \* the upload's read cursor after the call
    captionRequests,  \* requests sent to the captioning service (call / submission)
    scoreRequests,    \* requests sent to the scoring service (call / submission)
    pipe              \* the submission the pipeline is processing

vars == <<groq_api_key, florence_client, op, arg, ret, raised, fileOps, cursor,
          captionRequests, scoreRequests, pipe>>

NoValue == [none |-> TRUE]

(***************************************************************************)
(* Characters                                                              *)
(***************************************************************************)
UpperCase == <<"A","B","C","D","E","F","G","H","I","J","K","L","M",
               "N","O","P","Q","R","S","T","U","V","W","X","Y","Z">>
LowerCase == <<"a","b","c","d","e","f","g","h","i","j","k","l","m",
               "n","o","p","q","r","s","t","u","v","w","x","y","z">>

\* str.lower() on one character
LowerChar(c) ==
    IF \E i \in DOMAIN UpperCase : UpperCase[i] = c
    THEN LowerCase[CHOOSE i \in DOMAIN UpperCase : UpperCase[i] = c]
    ELSE c

\* str.lower()
Lower(s) == [i \in DOMAIN s |-> LowerChar(s[i])]

\* sub in s
Contains(s, sub) ==
    \E i \in 0..(Len(s) - Len(sub)) :
        \A j \in 1..Len(sub) : s[i + j] = sub[j]

(***************************************************************************)
(* Image Gate                                                              *)
(***************************************************************************)
MinDim == 100
MaxDim == 4000

ALLOWED_EXTENSIONS ==
    { <<"p","n","g">>, <<"j","p","g">>, <<"j","p","e","g">>,
      <<"g","i","f">>, <<"w","e","b","p">> }

\* filename.rsplit('.', 1)[1], for a filename that contains a dot
RsplitExt(filename) ==
    LET last == CHOOSE i \in DOMAIN filename :
                    /\ filename[i] = "."
                    /\ \A j \in DOMAIN filename : j > i => filename[j] # "."
    IN  SubSeq(filename, last + 1, Len(filename))

allowed_file_NoLower(filename) ==
    IF Len(filename) = 0 THEN FALSE
    ELSE /\ Contains(filename, <<".">>)
         /\ RsplitExt(filename) \in ALLOWED_EXTENSIONS

allowed_file(filename) ==
    IF Len(filename) = 0 THEN FALSE
    ELSE /\ Contains(filename, <<".">>)
         /\ Lower(RsplitExt(filename)) \in ALLOWED_EXTENSIONS

NoFile == [absent |-> TRUE]

\* bool(file): None is falsy; an upload object is falsy when it carries no
\* file name (the upload type of the web framework the module is written for).
Truthy(file) == file # NoFile /\ Len(file.filename) > 0

\* the (valid, message) pair the gate returns
GateResult(valid, message) == [valid |-> valid, message |-> message]

\* What the call leaves behind: its result, the operations on the handle, the cursor.
GateOutcome(r, ops, cur) == [ret |-> r, ops |-> ops, cursor |-> cur]

validate_image_file_SeekFirst(file) ==
    IF ~Truthy(file)
    THEN GateOutcome(GateResult(FALSE, "No file provided"), <<>>,
                     IF file = NoFile THEN "none" ELSE "start")
    ELSE IF ~allowed_file(file.filename)
    THEN GateOutcome(GateResult(FALSE, "Invalid file type."), <<"seek">>, "start")
    ELSE IF file.content # "image"
    THEN GateOutcome(GateResult(FALSE, "Invalid image file: cannot identify image file"),
                     <<"seek", "open">>, "moved")
    ELSE LET ops == <<"seek", "open", "verify", "seek", "open", "seek">>
         IN  IF file.width < MinDim \/ file.height < MinDim
             THEN GateOutcome(GateResult(FALSE, "Image too small."), ops, "start")
             ELSE IF file.width > MaxDim \/ file.height > MaxDim
             THEN GateOutcome(GateResult(FALSE, "Image too large."), ops, "start")
             ELSE GateOutcome(GateResult(TRUE, "Valid image"), ops, "start")

validate_image_file_LargeFirst(file) ==
    IF ~Truthy(file)
    THEN GateOutcome(GateResult(FALSE, "No file provided"), <<>>,
                     IF file = NoFile THEN "none" ELSE "start")
    ELSE IF ~allowed_file(file.filename)
    THEN GateOutcome(GateResult(FALSE, "Invalid file type."), <<>>, "start")
    ELSE IF file.content # "image"
    THEN GateOutcome(GateResult(FALSE, "Invalid image file: cannot identify image file"),
                     <<"seek", "open">>, "moved")
    ELSE LET ops == <<"seek", "open", "verify", "seek", "open", "seek">>
         IN  IF file.width > MaxDim \/ file.height > MaxDim
             THEN GateOutcome(GateResult(FALSE, "Image too large."), ops, "start")
             ELSE IF file.width < MinDim \/ file.height < MinDim
             THEN GateOutcome(GateResult(FALSE, "Image too small."), ops, "start")
             ELSE GateOutcome(GateResult(TRUE, "Valid image"), ops, "start")

validate_image_file(file) ==
    IF ~Truthy(file)
    THEN GateOutcome(GateResult(FALSE, "No file provided"), <<>>,
                     IF file = NoFile THEN "none" ELSE "start")
    ELSE IF ~allowed_file(file.filename)
    THEN GateOutcome(GateResult(FALSE, "Invalid file type."), <<>>, "start")
    ELSE IF file.content = "garbage"
    THEN \* Image.open raises after reading the header bytes
         GateOutcome(GateResult(FALSE, "Invalid image file: cannot identify image file"),
                     <<"seek", "open">>, "moved")
    ELSE IF file.content = "corrupt"
    THEN \* img.verify() raises after reading the data
         GateOutcome(GateResult(FALSE, "Invalid image file: broken data stream"),
                     <<"seek", "open", "verify">>, "moved")
    ELSE LET ops == <<"seek", "open", "verify", "seek", "open", "seek">>
         IN  IF file.width < MinDim \/ file.height < MinDim
             THEN GateOutcome(GateResult(FALSE, "Image too small."), ops, "start")
             ELSE IF file.width > MaxDim \/ file.height > MaxDim
             THEN GateOutcome(GateResult(FALSE, "Image too large."), ops, "start")
             ELSE GateOutcome(GateResult(TRUE, "Valid image"), ops, "start")

(***************************************************************************)
(* Inputs of the image gate                                                *)
(***************************************************************************)
FileNames ==
    { <<>>,
      <<"a",".","p","n","g">>, <<"a",".","P","N","G">>, <<"a",".","j","p","g">>,
      <<"a",".","J","p","e","g">>, <<"a",".","g","i","f">>,
      <<"a",".","w","e","b","p">>,
      <<"p","n","g">>, <<"a",".","b","m","p">>, <<"a",".">>, <<".","p","n","g">>,
      <<"a",".","p","n","g",".","e","x","e">>,
      <<"a",".","e","x","e",".","p","n","g">> }

Dims == {1, MinDim - 1, MinDim, MinDim + 1, MaxDim - 1, MaxDim, MaxDim + 1}

Uploads ==
    {NoFile}
    \cup [filename : FileNames, content : {"image"}, width : Dims, height : Dims]
    \cup [filename : FileNames, content : {"corrupt", "garbage"},
          width : {0}, height : {0}]

(***************************************************************************)
(* Python values and caption text                                          *)
(*                                                                         *)
(* A caption text is a sequence of lexical tokens: punctuation P("{"),     *)
(* whitespace P(" "), a bare word W(..), a quoted string literal Q(text)   *)
(* and a number literal N(n).  A Python value is None, an int, a str (a    *)
(* text), a list/tuple, a dict (insertion-ordered pairs), a set, or an     *)
(* object whose str() raises.                                              *)
(***************************************************************************)
P(c) == [p |-> c]
W(c) == [w |-> c]
Q(text) == [q |-> text]
N(n) == [n |-> n]

IsP(tok) == DOMAIN tok = {"p"}
IsW(tok) == DOMAIN tok = {"w"}
IsQ(tok) == DOMAIN tok = {"q"}
IsN(tok) == DOMAIN tok = {"n"}

PyNone == [pynone |-> TRUE]
PyInt(n) == [int |-> n]
PyStr(s) == [str |-> s]
PyList(xs) == [list |-> xs]
PyDict(kv) == [dict |-> kv]
PySet(xs) == [set |-> xs]
PyBadObj == [obj |-> "str_raises"]

IsNone(v) == DOMAIN v = {"pynone"}
IsInt(v) == DOMAIN v = {"int"}
IsStr(v) == DOMAIN v = {"str"}
IsList(v) == DOMAIN v = {"list"}
IsDict(v) == DOMAIN v = {"dict"}
IsSet(v) == DOMAIN v = {"set"}
IsBadObj(v) == DOMAIN v = {"obj"}

\* bool(v)
PyTruthy(v) ==
    CASE IsNone(v) -> FALSE
      [] IsInt(v) -> v.int # 0
      [] IsStr(v) -> Len(v.str) > 0
      [] IsList(v) -> Len(v.list) > 0
      [] IsDict(v) -> Len(v.dict) > 0
      [] IsSet(v) -> Len(v.set) > 0
      [] OTHER -> TRUE

RECURSIVE Repr(_), ReprItems(_, _), ReprPairs(_, _)

\* repr(v), for a value whose repr is defined
Repr(v) ==
    CASE IsNone(v) -> <<W("None")>>
      [] IsInt(v) -> <<N(v.int)>>
      [] IsStr(v) -> <<Q(v.str)>>
      [] IsList(v) -> <<P("[")>> \o ReprItems(v.list, 1) \o <<P("]")>>
      [] IsSet(v) -> <<P("{")>> \o ReprItems(v.set, 1) \o <<P("}")>>
      [] IsDict(v) -> <<P("{")>> \o ReprPairs(v.dict, 1) \o <<P("}")>>

ReprItems(xs, i) ==
    IF i > Len(xs) THEN <<>>
    ELSE Repr(xs[i])
         \o (IF i < Len(xs) THEN <<P(","), P(" ")>> ELSE <<>>)
         \o ReprItems(xs, i + 1)

ReprPairs(kv, i) ==
    IF i > Len(kv) THEN <<>>
    ELSE Repr(kv[i][1]) \o <<P(":"), P(" ")>> \o Repr(kv[i][2])
         \o (IF i < Len(kv) THEN <<P(","), P(" ")>> ELSE <<>>)
         \o ReprPairs(kv, i + 1)

\* str(v), for a value whose str() does not raise
Str(v) == IF IsStr(v) THEN v.str ELSE Repr(v)

StrRaises(v) == IsBadObj(v)

(***************************************************************************)
(* ast.literal_eval on the flat literals the replies hold: a dict or set   *)
(* display whose keys and values are string, number or None literals.      *)
(***************************************************************************)
IsSpace(tok) == tok = P(" ")

RECURSIVE DropSpaces(_)
DropSpaces(text) ==
    IF text = <<>> THEN <<>>
    ELSE IF IsSpace(Head(text)) THEN DropSpaces(Tail(text))
    ELSE <<Head(text)>> \o DropSpaces(Tail(text))

IsAtom(tok) == IsQ(tok) \/ IsN(tok) \/ tok = W("None")

AtomValue(tok) ==
    CASE IsQ(tok) -> PyStr(tok.q)
      [] IsN(tok) -> PyInt(tok.n)
      [] OTHER -> PyNone

\* d[k] = v on an insertion-ordered dict
DictSet(kv, k, v) ==
    IF \E i \in DOMAIN kv : kv[i][1] = k
    THEN [i \in DOMAIN kv |-> IF kv[i][1] = k THEN <<k, v>> ELSE kv[i]]
    ELSE Append(kv, <<k, v>>)

RECURSIVE DictOf(_, _, _)
\* the dict of the display items k : v , k : v ..., read from position i
DictOf(items, i, kv) ==
    IF i > Len(items) THEN kv
    ELSE DictOf(items, i + 4,
                DictSet(kv, AtomValue(items[i]), AtomValue(items[i + 2])))

IsPairList(items) ==
    /\ Len(items) % 4 = 3
    /\ \A i \in DOMAIN items :
          CASE i % 4 = 1 -> IsAtom(items[i])
            [] i % 4 = 2 -> items[i] = P(":")
            [] i % 4 = 3 -> IsAtom(items[i])
            [] OTHER -> items[i] = P(",")

IsItemList(items) ==
    /\ Len(items) % 2 = 1
    /\ \A i \in DOMAIN items :
          IF i % 2 = 1 THEN IsAtom(items[i]) ELSE items[i] = P(",")

ParseFailed == [ok |-> FALSE]
Parsed(v) == [ok |-> TRUE, v |-> v]

\* ast.literal_eval(text): Parsed(value), or ParseFailed when it raises
literal_eval(text) ==
    LET toks == DropSpaces(text)
        n == Len(toks)
        items == SubSeq(toks, 2, n - 1)
    IN  IF n = 1 /\ IsAtom(toks[1]) THEN Parsed(AtomValue(toks[1]))
        ELSE IF n < 2 \/ toks[1] # P("{") \/ toks[n] # P("}") THEN ParseFailed
        ELSE IF items = <<>> THEN Parsed(PyDict(<<>>))
        ELSE IF IsPairList(items) THEN Parsed(PyDict(DictOf(items, 1, <<>>)))
        ELSE IF IsItemList(items)
             THEN Parsed(PySet([i \in 1..((Len(items) + 1) \div 2) |->
                                    AtomValue(items[2 * i - 1])]))
        ELSE ParseFailed

(***************************************************************************)
(* Caption Requester                                                       *)
(***************************************************************************)
Text(word) == <<W(word)>>

\* list(caption_dict.values())[0] inside try/except: pass
FirstValueOr(caption, d) ==
    IF Len(d.dict) = 0 THEN caption ELSE d.dict[1][2]

_extract_caption(result) ==
    LET picked == IF IsList(result) /\ Len(result.list) >= 1
                  THEN result.list[1] ELSE result
    IN  IF PyTruthy(picked) /\ StrRaises(picked)
        THEN PyStr(Text("Caption extraction failed"))
        ELSE LET caption == IF PyTruthy(picked) THEN Str(picked)
                            ELSE Text("No caption generated")
             IN  IF /\ Len(caption) > 0
                    /\ Head(caption) = P("{")
                    /\ caption[Len(caption)] = P("}")
                 THEN LET e == literal_eval(caption)
                      IN  IF e.ok /\ IsDict(e.v)
                          THEN FirstValueOr(PyStr(caption), e.v)
                          ELSE PyStr(caption)
                 ELSE PyStr(caption)

\* What a call of the captioning service does: raise, or reply with a value
ServiceRaises == [raises |-> TRUE]
ServiceReplies(v) == [raises |-> FALSE, reply |-> v]

CaptionOutcome(r, exc, sent) == [ret |-> r, raised |-> exc, sent |-> sent]

get_florence_caption(client, image_path, service) ==
    IF image_path = "None"
    THEN \* os.path.basename(None) raises TypeError before the first check
         CaptionOutcome(NoValue, TRUE, 0)
    ELSE IF ~client
    THEN CaptionOutcome(PyStr(Text("Caption generation unavailable")), FALSE, 0)
    ELSE IF image_path # "exists"
    THEN CaptionOutcome(PyStr(Text("Image file not found")), FALSE, 0)
    ELSE IF service.raises
    THEN CaptionOutcome(PyStr(<<W("Caption generation failed: "), W("service error")>>),
                        FALSE, 1)
    ELSE CaptionOutcome(_extract_caption(service.reply), FALSE, 1)

(***************************************************************************)
(* Inputs of the caption requester                                         *)
(***************************************************************************)
Pothole == Text("Pothole on street")

Mapping(items) == <<P("{")>> \o items \o <<P("}")>>

CaptionTexts ==
    { <<>>, Pothole,
      Mapping(<<Q(Text("caption")), P(":"), P(" "), Q(Pothole)>>),
      Mapping(<<Q(Text("caption")), P(":"), P(" "), Q(<<>>)>>),
      Mapping(<<Q(Text("caption")), P(":"), P(" "), N(5)>>),
      Mapping(<<Q(Text("caption")), P(":"), P(" "), W("None")>>),
      Mapping(<<>>),
      Mapping(<<Q(Text("a")), P(":"), Q(Pothole), P(","), Q(Text("b")), P(":"), Q(Text("y"))>>),
      Mapping(<<Q(Text("a")), P(":"), Q(Text("x")), P(","), Q(Text("a")), P(":"), Q(Pothole)>>),
      Mapping(<<Q(Text("caption")), Q(Pothole)>>),
      Mapping(<<W("caption")>>),
      Mapping(<<Q(Pothole)>>),
      <<P(" ")>> \o Mapping(<<Q(Text("caption")), P(":"), Q(Pothole)>>),
      Mapping(<<Q(Text("caption")), P(":"), Q(Pothole)>>) \o <<W("!")>> }

PathStates == {"None", "missing", "exists"}

CaptionReplies ==
    {PyNone, PyInt(0), PyInt(5), PyBadObj, PyList(<<>>), PyDict(<<>>),
     PyDict(<< <<PyStr(Text("caption")), PyStr(Pothole)>> >>),
     PyDict(<< <<PyStr(Text("caption")), PyStr(<<>>)>> >>),
     PyList(<<PyNone, PyStr(Pothole)>>),
     PyList(<<PyBadObj>>),
     PyList(<<PyDict(<< <<PyStr(Text("caption")), PyInt(5)>> >>)>>)}
    \cup {PyStr(t) : t \in CaptionTexts}
    \cup {PyList(<<PyStr(t)>>) : t \in CaptionTexts}

CaptionServiceOutcomes == {ServiceRaises} \cup {ServiceReplies(v) : v \in CaptionReplies}

(***************************************************************************)
(* Relevance Scorer: the strict parser                                     *)
(***************************************************************************)
MaxScore == 100

Digits == <<"0","1","2","3","4","5","6","7","8","9">>

\* \d
IsDigit(c) == \E i \in DOMAIN Digits : Digits[i] = c

DigitValue(c) == (CHOOSE i \in DOMAIN Digits : Digits[i] = c) - 1

IsWhitespace(c) == c \in {" ", "\n", "\t", "\r"}

RECURSIVE LStrip(_), RStrip(_)
LStrip(s) ==
    IF s # <<>> /\ IsWhitespace(Head(s)) THEN LStrip(Tail(s)) ELSE s

RStrip(s) ==
    IF s # <<>> /\ IsWhitespace(s[Len(s)])
    THEN RStrip(SubSeq(s, 1, Len(s) - 1)) ELSE s

\* text.strip()
Strip(s) == RStrip(LStrip(s))

RECURSIVE SplitLines(_, _)
\* text.split('\n'), with cur the line collected so far
SplitLines(s, cur) ==
    IF s = <<>> THEN <<cur>>
    ELSE IF Head(s) = "\n" THEN <<cur>> \o SplitLines(Tail(s), <<>>)
    ELSE SplitLines(Tail(s), Append(cur, Head(s)))

Split(s) == SplitLines(s, <<>>)

HasDigit(line) == \E i \in DOMAIN line : IsDigit(line[i])

\* re.findall(r'\d+', line)[0], for a line that holds a digit
FirstDigitRun(line) ==
    LET first == CHOOSE i \in DOMAIN line :
                     IsDigit(line[i]) /\ \A j \in 1..(i - 1) : ~IsDigit(line[j])
        last == CHOOSE k \in first..Len(line) :
                    /\ \A j \in first..k : IsDigit(line[j])
                    /\ (k = Len(line) \/ ~IsDigit(line[k + 1]))
    IN  SubSeq(line, first, last)

Min(a, b) == IF a < b THEN a ELSE b
Max(a, b) == IF a > b THEN a ELSE b

\* Python integers are unbounded and TLC's have 32 bits: a value is
\* carried exactly up to IntCap and as IntCap above it.
IntCap == 1000000

RECURSIVE ParseInt(_)
\* int(run) for a run of decimal digits
ParseInt(run) ==
    IF run = <<>> THEN 0
    ELSE LET high == ParseInt(SubSeq(run, 1, Len(run) - 1))
         IN  IF high >= IntCap THEN IntCap
             ELSE Min(IntCap, high * 10 + DigitValue(run[Len(run)]))

Clamp_NoUpper(n) == Max(0, n)

\* max(0, min(100, n))
Clamp(n) == Max(0, Min(MaxScore, n))

RECURSIVE DecimalOf(_)
\* the decimal digits of n >= 0
DecimalOf(n) ==
    IF n < 10 THEN <<Digits[n + 1]>>
    ELSE DecimalOf(n \div 10) \o <<Digits[(n % 10) + 1]>>

\* f"{val:03d}" for val >= 0
Format03d(val) ==
    LET d == DecimalOf(val)
    IN  IF Len(d) >= 3 THEN d
        ELSE [i \in 1..(3 - Len(d)) |-> "0"] \o d

\* the code of the first digit run of a line
LineCode(line) == Format03d(Clamp(ParseInt(FirstDigitRun(line))))

ScoreWord == <<"s","c","o","r","e">>

_strict3score_NoLabelPass(text) ==
    LET lines == Split(Strip(text))
        any == {i \in DOMAIN lines : HasDigit(lines[i])}
    IN  IF any # {}
        THEN LineCode(lines[CHOOSE i \in any : \A j \in any : i <= j])
        ELSE <<"0", "0", "0">>

_strict3score_FirstLabelOnly(text) ==
    LET lines == Split(Strip(text))
        labelled == {i \in DOMAIN lines : Contains(Lower(lines[i]), ScoreWord)}
        any == {i \in DOMAIN lines : HasDigit(lines[i])}
        l == CHOOSE i \in labelled : \A j \in labelled : i <= j
    IN  IF labelled # {} /\ HasDigit(lines[l]) THEN LineCode(lines[l])
        ELSE IF labelled # {} THEN <<"0", "0", "0">>
        ELSE IF any # {}
        THEN LineCode(lines[CHOOSE i \in any : \A j \in any : i <= j])
        ELSE <<"0", "0", "0">>

_strict3score(text) ==
    LET lines == Split(Strip(text))
        \* the lines on which the first loop can return
        labelled == {i \in DOMAIN lines :
                        Contains(Lower(lines[i]), ScoreWord) /\ HasDigit(lines[i])}
        \* the lines on which the second loop can return
        any == {i \in DOMAIN lines : HasDigit(lines[i])}
    IN  IF labelled # {}
        THEN LineCode(lines[CHOOSE i \in labelled : \A j \in labelled : i <= j])
        ELSE IF any # {}
        THEN LineCode(lines[CHOOSE i \in any : \A j \in any : i <= j])
        ELSE <<"0", "0", "0">>

(***************************************************************************)
(* Relevance Scorer: the request                                           *)
(***************************************************************************)
HttpOk == 200

\* Outcomes of requests.post and of reading the reply
TransportError == [kind |-> "transport_error"]
Status(code) == [kind |-> "status", status |-> code]
BodyNotJson == [kind |-> "body_not_json", status |-> HttpOk]
BodyLacksContent == [kind |-> "body_lacks_content", status |-> HttpOk]
ContentNotText == [kind |-> "content_not_text", status |-> HttpOk]
ReplyText(t) == [kind |-> "text", status |-> HttpOk, text |-> t]

ScoreOutcome(r, exc, sent) == [ret |-> r, raised |-> exc, sent |-> sent]

\* a Python str held as its characters
Chars(s) == [chars |-> s]

Fallback == Chars(<<"0", "0", "0">>)

get_civic_score_strict3_Retry(key, caption, description, service) ==
    IF service.kind = "text" THEN ScoreOutcome(Chars(_strict3score(service.text)), FALSE, 1)
    ELSE ScoreOutcome(Fallback, FALSE, 2)

get_civic_score_strict3_NoTry(key, caption, description, service) ==
    IF service.kind = "text" THEN ScoreOutcome(Chars(_strict3score(service.text)), FALSE, 1)
    ELSE IF service.kind = "status" THEN ScoreOutcome(Fallback, FALSE, 1)
    ELSE ScoreOutcome(NoValue, TRUE, 1)

get_civic_score_strict3(key, caption, description, service) ==
    \* one requests.post(url, headers, json); everything below it is inside try
    IF service.kind = "transport_error" THEN ScoreOutcome(Fallback, FALSE, 1)
    ELSE IF service.status # HttpOk THEN ScoreOutcome(Fallback, FALSE, 1)
    ELSE IF service.kind \in {"body_not_json", "body_lacks_content"}
    THEN \* response.json() or the path into it raises
         ScoreOutcome(Fallback, FALSE, 1)
    ELSE IF service.kind = "content_not_text"
    THEN \* _strict3score raises on text.strip()
         ScoreOutcome(Fallback, FALSE, 1)
    ELSE ScoreOutcome(Chars(_strict3score(service.text)), FALSE, 1)

(***************************************************************************)
(* Inputs of the relevance scorer                                          *)
(***************************************************************************)
MaxFrags == 4

Fragments ==
    { <<"S","c","o","r","e",":"," ">>, <<"\n">>,
      <<"8","5">>, <<"1","5","0">>, <<"-","5">> }

RECURSIVE TextsOf(_)
\* the texts made of at most k fragments
TextsOf(k) ==
    IF k = 0 THEN {<<>>}
    ELSE LET shorter == TextsOf(k - 1)
         IN  shorter \cup {t \o f : t \in shorter, f \in Fragments}

ReplyTexts == TextsOf(MaxFrags)

\* the replies the pipeline's scoring step is run on
MaxPipelineFrags == 2

PipelineReplyTexts == TextsOf(MaxPipelineFrags)

ScoreServiceFailures ==
    {TransportError, Status(401), Status(500), BodyNotJson, BodyLacksContent,
     ContentNotText}

ScoreServiceOutcomes == ScoreServiceFailures \cup {ReplyText(t) : t \in ReplyTexts}

PipelineScoreOutcomes ==
    ScoreServiceFailures \cup {ReplyText(t) : t \in PipelineReplyTexts}

Descriptions == {<<>>, Text("Broken road")}

\* (caption, description) pairs handed to the scorer
ScoreInputs ==
    { <<PyStr(<<>>), <<>>>>,
      <<PyStr(Pothole), <<>>>>,
      <<PyStr(Text("Caption generation unavailable")), Text("Broken road")>> }

(***************************************************************************)
(* State machine                                                           *)
(*                                                                         *)
(* The validator's methods are called one at a time (the call chain is     *)
(* synchronous); op, arg, ret and raised record the last completed call    *)
(* until the caller takes the result.                                      *)
(***************************************************************************)
IdlePipe == [pc |-> "idle", image |-> NoValue, caption |-> NoValue, score |-> NoValue]

Init ==
    /\ groq_api_key \in {"key", "None"}
    /\ florence_client \in BOOLEAN
    /\ op = "none"
    /\ arg = NoValue
    /\ ret = NoValue
    /\ raised = FALSE
    /\ fileOps = <<>>
    /\ cursor = "none"
    /\ captionRequests = 0
    /\ scoreRequests = 0
    /\ pipe = IdlePipe

Ready == pipe.pc = "idle" /\ op = "none"

\* validator.validate_image_file(file)
ValidateImageFile ==
    /\ Ready
    /\ \E file \in Uploads :
        LET out == validate_image_file(file) IN
        /\ op' = "validate_image_file"
        /\ arg' = file
        /\ ret' = out.ret
        /\ raised' = FALSE
        /\ fileOps' = out.ops
        /\ cursor' = out.cursor
    /\ UNCHANGED <<groq_api_key, florence_client, captionRequests, scoreRequests, pipe>>

\* validator.get_florence_caption(image_path)
GetFlorenceCaption ==
    /\ Ready
    /\ \E image_path \in PathStates, service \in CaptionServiceOutcomes :
        LET out == get_florence_caption(florence_client, image_path, service) IN
        /\ op' = "get_florence_caption"
        /\ arg' = [image_path |-> image_path, service |-> service]
        /\ ret' = out.ret
        /\ raised' = out.raised
        /\ captionRequests' = out.sent
    /\ UNCHANGED <<groq_api_key, florence_client, fileOps, cursor, scoreRequests, pipe>>

\* validator._extract_caption(result)
ExtractCaption ==
    /\ Ready
    /\ \E result \in CaptionReplies :
        /\ op' = "_extract_caption"
        /\ arg' = result
        /\ ret' = _extract_caption(result)
        /\ raised' = FALSE
    /\ UNCHANGED <<groq_api_key, florence_client, fileOps, cursor,
                   captionRequests, scoreRequests, pipe>>

\* validator.get_civic_score_strict3(caption, description)
GetCivicScoreStrict3 ==
    /\ Ready
    /\ \E in \in ScoreInputs, service \in ScoreServiceOutcomes :
        LET out == get_civic_score_strict3(groq_api_key, in[1], in[2], service) IN
        /\ op' = "get_civic_score_strict3"
        /\ arg' = [caption |-> in[1], description |-> in[2], service |-> service]
        /\ ret' = out.ret
        /\ raised' = out.raised
        /\ scoreRequests' = out.sent
    /\ UNCHANGED <<groq_api_key, florence_client, fileOps, cursor, captionRequests, pipe>>

\* validator._strict3score(text)
Strict3Score ==
    /\ Ready
    /\ \E text \in ReplyTexts :
        /\ op' = "_strict3score"
        /\ arg' = Chars(text)
        /\ ret' = Chars(_strict3score(text))
        /\ raised' = FALSE
    /\ UNCHANGED <<groq_api_key, florence_client, fileOps, cursor,
                   captionRequests, scoreRequests, pipe>>

\* The caller takes the result; the validator keeps nothing of the call.
Return ==
    /\ pipe.pc = "idle"
    /\ op # "none"
    /\ op' = "none"
    /\ arg' = NoValue
    /\ ret' = NoValue
    /\ raised' = FALSE
    /\ fileOps' = <<>>
    /\ cursor' = "none"
    /\ captionRequests' = 0
    /\ scoreRequests' = 0
    /\ UNCHANGED <<groq_api_key, florence_client, pipe>>

(***************************************************************************)
(* Validation Pipeline (the caller's composition of the three stages)      *)
(***************************************************************************)
\* where the pipeline goes after the image gate
AfterGate_Always(image_valid) == "caption"

AfterGate(image_valid) == IF image_valid THEN "caption" ELSE "rejected"

\* step 1: run the image gate on the submitted upload
RunImageGate ==
    /\ Ready
    /\ \E file \in Uploads :
        LET out == validate_image_file(file) IN
        /\ op' = "validate_image_file"
        /\ arg' = file
        /\ ret' = out.ret
        /\ raised' = FALSE
        /\ fileOps' = out.ops
        /\ cursor' = out.cursor
        /\ pipe' = [pipe EXCEPT !.pc = AfterGate(out.ret.valid),
                                !.image = out.ret]
    /\ UNCHANGED <<groq_api_key, florence_client, captionRequests, scoreRequests>>

\* step 2: run the caption requester on the accepted image
RunCaptionRequester ==
    /\ pipe.pc = "caption"
    /\ \E image_path \in PathStates, service \in CaptionServiceOutcomes :
        LET out == get_florence_caption(florence_client, image_path, service) IN
        /\ op' = "get_florence_caption"
        /\ arg' = [image_path |-> image_path, service |-> service]
        /\ ret' = out.ret
        /\ raised' = out.raised
        /\ captionRequests' = captionRequests + out.sent
        /\ pipe' = [pipe EXCEPT !.pc = IF out.raised THEN "failed" ELSE "score",
                                !.caption = out.ret]
    /\ UNCHANGED <<groq_api_key, florence_client, fileOps, cursor, scoreRequests>>

\* step 3: run the relevance scorer with the caption and the description
RunRelevanceScorer ==
    /\ pipe.pc = "score"
    /\ \E description \in Descriptions, service \in PipelineScoreOutcomes :
        LET out == get_civic_score_strict3(groq_api_key, pipe.caption,
                                           description, service) IN
        /\ op' = "get_civic_score_strict3"
        /\ arg' = [caption |-> pipe.caption, description |-> description,
                   service |-> service]
        /\ ret' = out.ret
        /\ raised' = out.raised
        /\ scoreRequests' = scoreRequests + out.sent
        /\ pipe' = [pipe EXCEPT !.pc = IF out.raised THEN "failed" ELSE "done",
                                !.score = out.ret]
    /\ UNCHANGED <<groq_api_key, florence_client, fileOps, cursor, captionRequests>>

\* step 4: the result (or the rejection) goes back to the caller
ReturnResult ==
    /\ pipe.pc \in {"rejected", "done", "failed"}
    /\ pipe' = IdlePipe
    /\ op' = "none"
    /\ arg' = NoValue
    /\ ret' = NoValue
    /\ raised' = FALSE
    /\ fileOps' = <<>>
    /\ cursor' = "none"
    /\ captionRequests' = 0
    /\ scoreRequests' = 0
    /\ UNCHANGED <<groq_api_key, florence_client>>

Next ==
    \/ ValidateImageFile
    \/ GetFlorenceCaption
    \/ ExtractCaption
    \/ GetCivicScoreStrict3
    \/ Strict3Score
    \/ Return
    \/ RunImageGate
    \/ RunCaptionRequester
    \/ RunRelevanceScorer
    \/ ReturnResult

Spec == Init /\ [][Next]_vars

(***************************************************************************)
(* Properties                                                              *)
(***************************************************************************)
Chars_ScoreLabel == <<"S","c","o","r","e",":"," ">>

\* the number a 3-character code stands for
CodeValue(code) ==
    DigitValue(code[1]) * 100 + DigitValue(code[2]) * 10 + DigitValue(code[3])

\* the 3-digit code of a number v in 0..999, written out digit by digit
ThreeDigits(v) ==
    <<Digits[(v \div 100) + 1], Digits[((v \div 10) % 10) + 1], Digits[(v % 10) + 1]>>

\* the file name ends in a dot followed by an allowed extension, in any case
HasAllowedExtension(filename) ==
    \E e \in ALLOWED_EXTENSIONS :
        /\ Len(filename) > Len(e)
        /\ Lower(SubSeq(filename, Len(filename) - Len(e), Len(filename))) = <<".">> \o e

IsUploadCall == op = "validate_image_file" /\ arg # NoFile

\* C1: get_civic_score_strict3 never raises and returns exactly 3 ASCII digits
\* whose value is between 0 and 100, for every input pair and every outcome of
\* the scoring service.
C1_ScoreCodeAlways ==
    op = "get_civic_score_strict3" =>
        /\ ~raised
        /\ Len(ret.chars) = 3
        /\ \A i \in 1..3 : IsDigit(ret.chars[i])
        /\ CodeValue(ret.chars) \in 0..MaxScore

C1_Witness ==
    /\ op = "get_civic_score_strict3"
    /\ arg.caption = PyStr(<<>>)
    /\ arg.description = <<>>
    /\ arg.service = ReplyText(<<"8","5">>)
    /\ ret.chars = <<"0","8","5">>

C3_ValidInRange ==
    ( /\ IsUploadCall
      /\ arg.content = "image"
      /\ HasAllowedExtension(arg.filename)
      /\ arg.width \in MinDim..MaxDim
      /\ arg.height \in MinDim..MaxDim )
    => ret = GateResult(TRUE, "Valid image")

C3_Witness ==
    /\ IsUploadCall
    /\ arg.filename = <<"a",".","P","N","G">>
    /\ arg.content = "image"
    /\ arg.width = MinDim
    /\ arg.height = MaxDim
    /\ ret = GateResult(TRUE, "Valid image")

\* C4: an upload whose file name has no dot or no allowed extension is invalid
\* and the call made no seek, open or verify on it.
C4_BadExtensionBeforeDecode ==
    (IsUploadCall /\ ~HasAllowedExtension(arg.filename)) =>
        /\ ret.valid = FALSE
        /\ fileOps = <<>>

C4_Witness ==
    /\ IsUploadCall
    /\ arg.filename = <<"p","n","g">>
    /\ arg.content = "image"
    /\ ret = GateResult(FALSE, "Invalid file type.")
    /\ fileOps = <<>>

\* C5 as stated: every image with width or height below 100 is invalid with
\* "Image too small.", whatever the file name's extension.
C5_AsStated ==
    ( /\ IsUploadCall
      /\ arg.filename # <<>>
      /\ arg.content = "image"
      /\ (arg.width < MinDim \/ arg.height < MinDim) )
    => ret = GateResult(FALSE, "Image too small.")

\* C5 amended: every image with an allowed extension and with width or height
\* below 100 is invalid with "Image too small.", whichever allowed extension
\* it has and whatever the other dimension is.
C5_TooSmallAllowedExtension ==
    ( /\ IsUploadCall
      /\ arg.content = "image"
      /\ HasAllowedExtension(arg.filename)
      /\ (arg.width < MinDim \/ arg.height < MinDim) )
    => ret = GateResult(FALSE, "Image too small.")

C5_Witness ==
    /\ IsUploadCall
    /\ arg.filename = <<"a",".","g","i","f">>
    /\ arg.content = "image"
    /\ arg.width = MinDim - 1
    /\ arg.height = MaxDim + 1
    /\ ret = GateResult(FALSE, "Image too small.")

\* C6: get_florence_caption never raises and always returns a non-empty text,
\* for every location, handle and reply shape.
C6_CaptionAlwaysText ==
    op = "get_florence_caption" =>
        /\ ~raised
        /\ IsStr(ret)
        /\ Len(ret.str) > 0

\* C7: a call of get_civic_score_strict3 sends at most one request; after a
\* transport failure or a non-200 status it returns "000" with one request sent.
C7_OneRequestNoRetry ==
    op = "get_civic_score_strict3" =>
        /\ scoreRequests <= 1
        /\ (arg.service.kind \in {"transport_error", "status"} =>
                ret.chars = <<"0","0","0">> /\ scoreRequests = 1)

C7_Witness ==
    /\ op = "get_civic_score_strict3"
    /\ groq_api_key = "None"
    /\ arg.service = Status(401)
    /\ ret.chars = <<"0","0","0">>
    /\ scoreRequests = 1

\* the lines of a reply that contain "score" in any case
LabelledLines(lines) ==
    {i \in DOMAIN lines : Contains(Lower(lines[i]), ScoreWord)}

NumberLines(lines) == {i \in DOMAIN lines : HasDigit(lines[i])}

FirstOf(S) == CHOOSE i \in S : \A j \in S : i <= j

\* the code of a line's first digit run, "000" for a line without digits
CodeOfLine(line) ==
    IF HasDigit(line) THEN ThreeDigits(Min(MaxScore, ParseInt(FirstDigitRun(line))))
    ELSE <<"0","0","0">>

\* C8: when numbers stand on several lines and exactly one line contains
\* "score", the result is the code of the number on that line, whether the
\* other numbers come earlier or later.
C8_LabelledLineWins ==
    op = "_strict3score" =>
        LET lines == Split(arg.chars)
            labelled == LabelledLines(lines)
        IN  ( /\ Cardinality(labelled) = 1
              /\ labelled \subseteq NumberLines(lines)
              /\ Cardinality(NumberLines(lines)) > 1 )
            => ret.chars = CodeOfLine(lines[FirstOf(labelled)])

C8_Witness ==
    /\ op = "_strict3score"
    /\ arg.chars = <<"8","5","\n">> \o Chars_ScoreLabel \o <<"1","5","0">>
    /\ ret.chars = <<"1","0","0">>

\* C9: the code is min(100, n) zero-padded to 3 digits for the digit run n of
\* one of the reply's lines, "000" for a reply without digits; "Score: 150"
\* gives "100" and "Score: -5" gives "005".
C9_ClampAndPad ==
    op = "_strict3score" =>
        LET lines == Split(arg.chars) IN
        /\ NumberLines(lines) = {} => ret.chars = <<"0","0","0">>
        /\ NumberLines(lines) # {} =>
               \E i \in NumberLines(lines) : ret.chars = CodeOfLine(lines[i])
        /\ arg.chars = Chars_ScoreLabel \o <<"1","5","0">> => ret.chars = <<"1","0","0">>
        /\ arg.chars = Chars_ScoreLabel \o <<"-","5">> => ret.chars = <<"0","0","5">>

C9_Witness ==
    /\ op = "_strict3score"
    /\ arg.chars = Chars_ScoreLabel \o <<"1","5","0">>
    /\ ret.chars = <<"1","0","0">>

\* C10 as stated: whenever some line contains "score", the first such line
\* alone decides the result.
C10_AsStated ==
    op = "_strict3score" =>
        LET lines == Split(arg.chars)
            labelled == LabelledLines(lines)
        IN  labelled # {} => ret.chars = CodeOfLine(lines[FirstOf(labelled)])

\* C10 amended: the second pass is taken only when no line that contains
\* "score" holds a digit run; whenever some line contains both "score" and a
\* digit run, the first such line alone decides the result, and otherwise the
\* first line with a digit run does ("000" when there is none).
C10_FirstLabelledNumberDecides ==
    op = "_strict3score" =>
        LET lines == Split(arg.chars)
            both == LabelledLines(lines) \cap NumberLines(lines)
        IN  /\ both # {} => ret.chars = CodeOfLine(lines[FirstOf(both)])
            /\ (both = {} /\ NumberLines(lines) # {}) =>
                   ret.chars = CodeOfLine(lines[FirstOf(NumberLines(lines))])
            /\ NumberLines(lines) = {} => ret.chars = <<"0","0","0">>

C10_Witness ==
    /\ op = "_strict3score"
    /\ arg.chars = Chars_ScoreLabel \o <<"\n","8","5">>
    /\ ret.chars = <<"0","8","5">>

\* C11: after validate_image_file returns from a call that inspected the
\* upload's content (valid, too small, too large, or content that fails to
\* decode), the upload's read cursor is at the start.
C11_CursorAtStart ==
    (IsUploadCall /\ fileOps # <<>>) => cursor = "start"

\* C12: the caption returned by _extract_caption is never the raw text of a
\* serialized mapping: when the reply (or the first element of a sequence
\* reply) is text that starts with '{', ends with '}' and parses as a mapping,
\* the return value is the first value of that mapping; the text
\* {'caption': 'Pothole on street'} gives "Pothole on street", and a
\* one-element sequence holding plain text gives that text.
C12_NeverRawMapping ==
    op = "_extract_caption" =>
        LET picked == IF IsList(arg) /\ Len(arg.list) >= 1 THEN arg.list[1] ELSE arg
            e == literal_eval(picked.str)
        IN  /\ ( /\ IsStr(picked)
                 /\ Len(picked.str) > 0
                 /\ Head(picked.str) = P("{")
                 /\ picked.str[Len(picked.str)] = P("}")
                 /\ e.ok
                 /\ IsDict(e.v) )
               => /\ ret # picked
                  /\ Len(e.v.dict) > 0 => ret = e.v.dict[1][2]
            /\ arg = PyStr(Mapping(<<Q(Text("caption")), P(":"), P(" "), Q(Pothole)>>))
               => ret = PyStr(Pothole)
            /\ arg = PyList(<<PyStr(Pothole)>>) => ret = PyStr(Pothole)

====
